---- MODULE Spec2Model ----
(***************************************************************************)
(* CasADi::Matrix<T> (casadi/matrix/matrix.hpp): a sparse matrix kept in   *)
(* compressed row storage.  The object is a std::vector<T> of the stored   *)
(* entries (values) together with col_, rowind_, nrow_ and ncol_.          *)
(*                                                                         *)
(* C++ vectors are indexed from 0 and TLA+ sequences from 1: At(s, k) is   *)
(* the C++ s[k].                                                           *)
(***************************************************************************)
EXTENDS Integers, Sequences, FiniteSets, TLC

(* ------------------------------ bounds --------------------------------- *)
\* largest number of rows / columns an operation is called with
MaxRow == 2
MaxCol == 3
\* largest n*m an operation is called with
MaxNumel == 4
\* the element type T is modelled by 0..MaxVal, 0 being T(0)
MaxVal == 1
\* longest flat sequence handed to a constructor
MaxLen == 4
\* indices below zero that SpecAny calls with: -NegRange .. -1
NegRange == 1

Values == 0..MaxVal
Shapes == {s \in (0..MaxRow) \X (0..MaxCol) : s[1] * s[2] <= MaxNumel}
RECURSIVE SeqsUpTo(_)
SeqsUpTo(k) == IF k = 0 THEN {<<>>} ELSE SeqsUpTo(k - 1) \cup [1..k -> Values]
FlatSeqs == SeqsUpTo(MaxLen)

VARIABLES
  constructed,  \* a constructor has completed on the object
  nrow_,        \* int nrow_
  ncol_,        \* int ncol_
  values,       \* the std::vector<T> base: the stored entries
  col_,         \* std::vector<int> col_
  rowind_,      \* std::vector<int> rowind_
  ref,          \* the T& returned by getElementRef, until the next call is made
  last,         \* the last call: its arguments, its outcome and its result
  requested     \* history: the coordinates stored when the object was last
                \* (re-)initialized and the valid ones passed to
                \* getElementRef since

vars == <<constructed, nrow_, ncol_, values, col_, rowind_, ref, last, requested>>

(* --------------------------- vector helpers ---------------------------- *)
At(s, k) == s[k + 1]

\* std::vector::insert(begin() + k, e)
InsertAt(s, k, e) == SubSeq(s, 1, k) \o <<e>> \o SubSeq(s, k + 1, Len(s))

\* std::vector::resize(k, fill)
Resize(s, k, fill) == [x \in 1..k |-> IF x <= Len(s) THEN s[x] ELSE fill]

(* ------------------------- the object as a value ----------------------- *)
Self ==
  [nrow |-> nrow_, ncol |-> ncol_, values |-> values, col |-> col_, rowind |-> rowind_]

size1(M) == M.nrow
size2(M) == M.ncol
numel(M) == size1(M) * size2(M)

(* ------------------------------ makeEmpty ------------------------------ *)
makeEmpty(n, m) ==
  [nrow |-> n, ncol |-> m, values |-> <<>>, col |-> <<>>,
   rowind |-> Resize(<<>>, n + 1, 0)]

(* ------------------------------ makeDense ------------------------------ *)
\* the inner loop, lines 200-203: for(j=0; j<size2(); ++j){ col_[el] = j; el++; }
RECURSIVE DenseCols(_, _, _, _)
DenseCols(c, el, j, m) ==
  IF j < m
  THEN DenseCols([c EXCEPT ![el + 1] = j], el + 1, j + 1, m)
  ELSE [col |-> c, el |-> el]

\* DenseRows without the rowind_.back() = el that follows the loop
RECURSIVE DenseRowsNoBack(_, _, _, _, _, _)
DenseRowsNoBack(c, r, el, i, n, m) ==
  IF i < n
  THEN LET inner == DenseCols(c, el, 0, m)
       IN  DenseRowsNoBack(inner.col, [r EXCEPT ![i + 1] = el], inner.el, i + 1, n, m)
  ELSE [col |-> c, rowind |-> r]

\* the outer loop, lines 197-205: rowind_[i] = el; the inner loop; and at the
\* end rowind_.back() = el
RECURSIVE DenseRows(_, _, _, _, _, _)
DenseRows(c, r, el, i, n, m) ==
  IF i < n
  THEN LET inner == DenseCols(c, el, 0, m)
       IN  DenseRows(inner.col, [r EXCEPT ![i + 1] = el], inner.el, i + 1, n, m)
  ELSE [col |-> c, rowind |-> [r EXCEPT ![Len(r)] = el]]

\* makeDense without the clear() before the values are resized: the values held
\* before stay
makeDenseNoClear(M, n, m, val) ==
  LET filled == DenseRows(Resize(M.col, n * m, 0), Resize(M.rowind, n + 1, 0),
                          0, 0, n, m)
  IN  [nrow |-> n, ncol |-> m, values |-> Resize(M.values, n * m, val),
       col |-> filled.col, rowind |-> filled.rowind]

\* void makeDense(int n, int m, const T& val) on the object M
makeDense(M, n, m, val) ==
  LET filled == DenseRows(Resize(M.col, n * m, 0), Resize(M.rowind, n + 1, 0),
                          0, 0, n, m)
  IN  [nrow |-> n, ncol |-> m, values |-> Resize(<<>>, n * m, val),
       col |-> filled.col, rowind |-> filled.rowind]

(* ------------------------------ getElement ----------------------------- *)
\* std::vector::at(k) throws std::out_of_range unless 0 <= k < size()
InRange(s, k) == 0 <= k /\ k < Len(s)

\* getElementScan with the loop stopping one place early: ind < end - 1
RECURSIVE getElementScanShort(_, _, _, _)
getElementScanShort(M, j, ind, end) ==
  IF ind < end - 1
  THEN IF At(M.col, ind) = j THEN At(M.values, ind)
       ELSE IF At(M.col, ind) > j THEN 0
       ELSE getElementScanShort(M, j, ind + 1, end)
  ELSE 0

\* getElementScan that stops at the first column that is not j
getElementScanFirst(M, j, ind, end) ==
  IF ind < end
  THEN IF At(M.col, ind) = j THEN At(M.values, ind) ELSE 0
  ELSE 0

\* the loop of lines 140-145, from ind up to end: the value returned
RECURSIVE getElementScan(_, _, _, _)
getElementScan(M, j, ind, end) ==
  IF ind < end
  THEN IF At(M.col, ind) = j THEN At(M.values, ind)
       ELSE IF At(M.col, ind) > j THEN 0
       ELSE getElementScan(M, j, ind + 1, end)
  ELSE 0

\* const T getElement(int i, int j) const: [out, ret]
getElement(M, i, j) ==
  IF i >= size1(M) \/ j >= size2(M)
  THEN [out |-> "CasadiException", ret |-> 0]
  ELSE IF ~InRange(M.rowind, i) \/ ~InRange(M.rowind, i + 1)
  THEN [out |-> "out_of_range", ret |-> 0]
  ELSE [out |-> "ok",
        ret |-> getElementScan(M, j, At(M.rowind, i), At(M.rowind, i + 1))]

(* ----------------------------- getElementRef --------------------------- *)
\* getElementRefScan without the break at col_[ind] > j: an absent column is
\* always put at the end of the row
RECURSIVE getElementRefScanNoBreak(_, _, _, _)
getElementRefScanNoBreak(c, j, ind, end) ==
  IF ind < end
  THEN IF At(c, ind) = j THEN [found |-> TRUE, ind |-> ind]
       ELSE getElementRefScanNoBreak(c, j, ind + 1, end)
  ELSE [found |-> FALSE, ind |-> ind]

\* getElementRefScan without the test col_[ind] == j: a stored column is not
\* recognized
RECURSIVE getElementRefScanNoMatch(_, _, _, _)
getElementRefScanNoMatch(c, j, ind, end) ==
  IF ind < end
  THEN IF At(c, ind) > j THEN [found |-> FALSE, ind |-> ind]
       ELSE getElementRefScanNoMatch(c, j, ind + 1, end)
  ELSE [found |-> FALSE, ind |-> ind]

\* the loop of lines 155-160, from ind up to end: whether col_[ind] == j was
\* met, and ind when the loop is left
RECURSIVE getElementRefScan(_, _, _, _)
getElementRefScan(c, j, ind, end) ==
  IF ind < end
  THEN IF At(c, ind) = j THEN [found |-> TRUE, ind |-> ind]
       ELSE IF At(c, ind) > j THEN [found |-> FALSE, ind |-> ind]
       ELSE getElementRefScan(c, j, ind + 1, end)
  ELSE [found |-> FALSE, ind |-> ind]

\* BumpRowind with the loop stopping at row < size1(): the last offset is left
RECURSIVE BumpRowindShort(_, _, _)
BumpRowindShort(r, row, n) ==
  IF row < n THEN BumpRowindShort([r EXCEPT ![row + 1] = @ + 1], row + 1, n) ELSE r

\* lines 166-167: for(int row=i+1; row<size1()+1; ++row) rowind_[row]++;
RECURSIVE BumpRowind(_, _, _)
BumpRowind(r, row, n) ==
  IF row < n + 1 THEN BumpRowind([r EXCEPT ![row + 1] = @ + 1], row + 1, n) ELSE r

\* insertElement with the element put behind all the stored ones
insertElementAtEnd(M, i, j, ind) ==
  [M EXCEPT !.values = InsertAt(M.values, Len(M.values), 0),
            !.col = InsertAt(M.col, Len(M.col), j),
            !.rowind = BumpRowind(M.rowind, i + 1, size1(M))]

\* insertElement with the offsets incremented from row i on
insertElementFromRow(M, i, j, ind) ==
  [M EXCEPT !.values = InsertAt(M.values, ind, 0),
            !.col = InsertAt(M.col, ind, j),
            !.rowind = BumpRowind(M.rowind, i, size1(M))]

\* lines 162-169: insert the element at ind of row i
insertElement(M, i, j, ind) ==
  [M EXCEPT !.values = InsertAt(M.values, ind, 0),
            !.col = InsertAt(M.col, ind, j),
            !.rowind = BumpRowind(M.rowind, i + 1, size1(M))]

Outcome(M, out, ret, fresh) == [M |-> M, out |-> out, ret |-> ret, fresh |-> fresh]

\* getElementRef with i < 0 passes the check of line 151 and reads rowind_[i]
\* before the start of the array: undefined behaviour.  The outcomes kept here
\* are those of a build in which the read yields some int g: the process dies or
\* at(ind) throws (nothing is changed), g is the place of a stored entry taken
\* for the element, or g is a place in 0..size() where the element is inserted,
\* after which every rowind_[row] with row >= 0 is incremented.
undefinedRowRead(M, i, j) ==
  {Outcome(M, "undefined", -1, FALSE)}
  \cup {Outcome(M, "undefined", g, FALSE) : g \in 0..(Len(M.values) - 1)}
  \cup {Outcome([M EXCEPT !.values = InsertAt(M.values, g, 0),
                          !.col = InsertAt(M.col, g, j),
                          !.rowind = BumpRowind(M.rowind, 0, size1(M))],
                "undefined", g, TRUE) : g \in 0..Len(M.values)}

\* getElementRef that makes room for a coordinate past the shape, instead of
\* throwing
getElementRefGrow(M, i, j) ==
  IF i >= size1(M) \/ j >= size2(M)
  THEN LET n == IF i >= size1(M) THEN i + 1 ELSE size1(M)
           m == IF j >= size2(M) THEN j + 1 ELSE size2(M)
       IN  {Outcome(makeEmpty(n, m), "ok", -1, FALSE)}
  ELSE IF i < 0
  THEN undefinedRowRead(M, i, j)
  ELSE LET scan == getElementRefScan(M.col, j, At(M.rowind, i), At(M.rowind, i + 1))
       IN  IF scan.found
           THEN {Outcome(M, "ok", scan.ind, FALSE)}
           ELSE {Outcome(insertElement(M, i, j, scan.ind), "ok", scan.ind, TRUE)}

\* T& getElementRef(int i, int j): the set of possible outcomes
\* [M, out, ret, fresh], ret the index into values of the reference returned and
\* fresh whether the element was inserted by this call
getElementRef(M, i, j) ==
  IF i >= size1(M) \/ j >= size2(M)
  THEN {Outcome(M, "CasadiException", -1, FALSE)}
  ELSE IF i < 0
  THEN undefinedRowRead(M, i, j)
  ELSE LET scan == getElementRefScan(M.col, j, At(M.rowind, i), At(M.rowind, i + 1))
       IN  IF scan.found
           THEN {Outcome(M, "ok", scan.ind, FALSE)}
           ELSE {Outcome(insertElement(M, i, j, scan.ind), "ok", scan.ind, TRUE)}

(* ------------------------- shape classification ------------------------ *)
\* bool empty() const: numel()==0
empty(M) == numel(M) = 0

\* bool scalar() const: size1()==1 && size2()==1
scalar(M) == size1(M) = 1 /\ size2(M) = 1

\* vector that also takes a single row for a vector
vectorEither(M) == size1(M) = 1 \/ size2(M) = 1

\* bool vector() const: size2()==1
vector(M) == size2(M) = 1

(* ------------------------------- printing ------------------------------ *)
\* What a print function has done to the stream: the text written and how the
\* function ended.  stream << s for a literal or an int
puts(acc, s) == IF acc.out = "ok" THEN [acc EXCEPT !.text = @ \o s] ELSE acc

\* stream << (*this)(i,j): print functions are const, so this is getElement
\* and the value returned is then written; a throw ends the function
putElement(acc, M, i, j) ==
  IF acc.out # "ok" THEN acc
  ELSE LET g == getElement(M, i, j)
       IN  IF g.out = "ok" THEN [acc EXCEPT !.text = @ \o ToString(g.ret)]
           ELSE [acc EXCEPT !.out = g.out]

Stream == [out |-> "ok", text |-> ""]

\* printScalar that only rejects more than one element
printScalarLoose(M) ==
  IF numel(M) > 1
  THEN [out |-> "CasadiException: argument not scalar", text |-> ""]
  ELSE putElement(Stream, M, 0, 0)

\* void printScalar(std::ostream &stream) const
printScalar(M) ==
  IF numel(M) # 1
  THEN [out |-> "CasadiException: argument not scalar", text |-> ""]
  ELSE putElement(Stream, M, 0, 0)

\* lines 259-261: for(int i=1; i<size1(); i++) stream << "," << (*this)(i);
RECURSIVE printVectorLoop(_, _, _)
printVectorLoop(acc, M, i) ==
  IF i < size1(M)
  THEN printVectorLoop(putElement(puts(acc, ","), M, i, 0), M, i + 1)
  ELSE acc

\* void printVector(std::ostream &stream) const
printVector(M) ==
  LET head == puts(puts(puts(Stream, "["), ToString(size1(M))), "](")
      first == putElement(head, M, 0, 0)
  IN  puts(printVectorLoop(first, M, 1), ")")

\* lines 272-274 and 280-282: for(int j=1; j<size2(); j++)
\*   stream << "," << (*this)(i,j);
RECURSIVE printRowLoop(_, _, _, _)
printRowLoop(acc, M, i, j) ==
  IF j < size2(M)
  THEN printRowLoop(putElement(puts(acc, ","), M, i, j), M, i, j + 1)
  ELSE acc

\* lines 277-284: the rows after the first
RECURSIVE printRowsLoop(_, _, _)
printRowsLoop(acc, M, i) ==
  IF i < size1(M)
  THEN printRowsLoop(
         puts(printRowLoop(putElement(puts(acc, ",("), M, i, 0), M, i, 1), ")"),
         M, i + 1)
  ELSE acc

\* void printMatrix(std::ostream &stream) const
printMatrix(M) ==
  LET head == puts(puts(puts(puts(puts(Stream, "["), ToString(size1(M))), ","),
                        ToString(size2(M))), "]")
      row0 == puts(printRowLoop(putElement(puts(head, "(("), M, 0, 0), M, 0, 1), ")")
  IN  puts(printRowsLoop(row0, M, 1), ")")

\* print with the test for a single column before the test for a single element
printColumnFirst(M) ==
  IF empty(M) THEN puts(Stream, "<empty expression>")
  ELSE IF size2(M) = 1 THEN printVector(M)
  ELSE IF numel(M) = 1 THEN printScalar(M)
  ELSE printMatrix(M)

\* void print(std::ostream &stream) const
print(M) ==
  IF empty(M) THEN puts(Stream, "<empty expression>")
  ELSE IF numel(M) = 1 THEN printScalar(M)
  ELSE IF size2(M) = 1 THEN printVector(M)
  ELSE printMatrix(M)

(* ------------------------------ constructors --------------------------- *)
\* a write that reaches every stored value
storeThroughAll(M, pos, v) == [M EXCEPT !.values = [k \in 1..Len(@) |-> v]]

\* a write through the reference returned by getElementRef: values[pos] = v
storeThrough(M, pos, v) == [M EXCEPT !.values = [@ EXCEPT ![pos + 1] = v]]

\* copy(x.begin(), x.end(), std::vector<T>::begin())
copy(x, dest) == [k \in 1..Len(dest) |-> IF k <= Len(x) THEN x[k] ELSE dest[k]]

\* the object before a constructor body runs: the vectors are empty, nrow_ and
\* ncol_ are not initialized (every constructor assigns them before reading)
Blank == [nrow |-> 0, ncol |-> 0, values |-> <<>>, col |-> <<>>, rowind |-> <<>>]

\* MatrixScalar without the assignment through the reference
MatrixScalarNoWrite(val) ==
  LET o == CHOOSE o \in getElementRef(makeEmpty(1, 1), 0, 0) : TRUE
  IN  o.M

\* Matrix(const T &val): makeEmpty(1,1); getElementRef()=val;
MatrixScalar(val) ==
  LET o == CHOOSE o \in getElementRef(makeEmpty(1, 1), 0, 0) : TRUE
  IN  storeThrough(o.M, o.ret, val)

\* Matrix(const std::vector<A>& x): makeDense(x.size(),1,1); copy(...)
MatrixVector(x) ==
  LET D == makeDense(Blank, Len(x), 1, 1)
  IN  [D EXCEPT !.values = copy(x, D.values)]

\* dimensionMismatch that only rejects a sequence that is too short
dimensionMismatchShort(x, n, m) == Len(x) < n * m

\* the check of line 67
dimensionMismatch(x, n, m) == Len(x) # n * m

\* Matrix(const std::vector<A>& x, int n, int m), once the check has passed
MatrixShaped(x, n, m) ==
  LET D == makeDense(Blank, n, m, 1)
  IN  [D EXCEPT !.values = copy(x, D.values)]

(* -------------------------------- state -------------------------------- *)
NoRef == [pos |-> -1, i |-> -1, j |-> -1, fresh |-> FALSE]

\* a call as last records it; again: the call before it was the same
\* getElementRef(i, j) and returned; text: what a print function wrote; flag:
\* the answer of a bool query; stale: a reference held when the call was made
\* is no longer at the place of its coordinate
Call(op, i, j, v, x, out, ret) ==
  [op |-> op, i |-> i, j |-> j, v |-> v, x |-> x, out |-> out, ret |-> ret,
   again |-> FALSE, text |-> "", flag |-> FALSE, stale |-> FALSE]

Assign(M) ==
  /\ nrow_' = M.nrow
  /\ ncol_' = M.ncol
  /\ values' = M.values
  /\ col_' = M.col
  /\ rowind_' = M.rowind

\* the coordinates stored in M
StoredSet(M) ==
  UNION {{<<i, At(M.col, k)>> : k \in At(M.rowind, i)..(At(M.rowind, i + 1) - 1)} :
         i \in 0..(M.nrow - 1)}

\* the object is (re-)initialized as M
Reinit(M) == Assign(M) /\ requested' = StoredSet(M)

\* place pos of values and col_ is where M stores coordinate (i, j)
Denotes(M, pos, i, j) ==
  /\ 0 <= i /\ i < M.nrow
  /\ At(M.rowind, i) <= pos /\ pos < At(M.rowind, i + 1)
  /\ At(M.col, pos) = j

Init ==
  /\ constructed = FALSE
  /\ nrow_ = Blank.nrow
  /\ ncol_ = Blank.ncol
  /\ values = Blank.values
  /\ col_ = Blank.col
  /\ rowind_ = Blank.rowind
  /\ ref = NoRef
  /\ last = Call("none", 0, 0, 0, <<>>, "ok", 0)
  /\ requested = {}

\* no constructor has run yet; one that throws leaves no object to call or to
\* construct again
Unborn == ~constructed /\ last.op = "none"

\* the object can be called: it is constructed and no call was undefined
Live == constructed /\ last.out # "undefined"

RowArgs == 0..MaxRow
ColArgs == 0..MaxCol
NegArgs == (0 - NegRange)..(0 - 1)

(* ------------------------------- actions ------------------------------- *)
\* Matrix()
ConstructDefault ==
  /\ Unborn
  /\ Reinit(makeEmpty(0, 0))
  /\ constructed' = TRUE
  /\ ref' = NoRef
  /\ last' = Call("Matrix()", 0, 0, 0, <<>>, "ok", 0)

\* Matrix(int n, int m)
ConstructEmpty ==
  \E s \in Shapes :
    /\ Unborn
    /\ Reinit(makeEmpty(s[1], s[2]))
    /\ constructed' = TRUE
    /\ ref' = NoRef
    /\ last' = Call("Matrix(n,m)", s[1], s[2], 0, <<>>, "ok", 0)

\* Matrix(int n, int m, const T& val)
ConstructDense ==
  \E s \in Shapes, val \in Values :
    /\ Unborn
    /\ Reinit(makeDense(Blank, s[1], s[2], val))
    /\ constructed' = TRUE
    /\ ref' = NoRef
    /\ last' = Call("Matrix(n,m,val)", s[1], s[2], val, <<>>, "ok", 0)

\* Matrix(const T &val)
ConstructScalar ==
  \E val \in Values :
    /\ Unborn
    /\ Reinit(MatrixScalar(val))
    /\ constructed' = TRUE
    /\ ref' = NoRef
    /\ last' = Call("Matrix(val)", 0, 0, val, <<>>, "ok", 0)

\* Matrix(const std::vector<A>& x)
ConstructVector ==
  \E x \in SeqsUpTo(MaxRow) :
    /\ Unborn
    /\ Reinit(MatrixVector(x))
    /\ constructed' = TRUE
    /\ ref' = NoRef
    /\ last' = Call("Matrix(x)", 0, 0, 0, x, "ok", 0)

\* Matrix(const std::vector<A>& x, int n, int m): throws before anything is
\* built when the length is not n*m, and then there is no object
ConstructShaped ==
  \E x \in FlatSeqs, s \in Shapes :
    /\ Unborn
    /\ IF dimensionMismatch(x, s[1], s[2])
       THEN /\ UNCHANGED <<constructed, nrow_, ncol_, values, col_, rowind_, ref,
                          requested>>
            /\ last' = Call("Matrix(x,n,m)", s[1], s[2], 0, x, "CasadiException", 0)
       ELSE /\ Reinit(MatrixShaped(x, s[1], s[2]))
            /\ constructed' = TRUE
            /\ ref' = NoRef
            /\ last' = Call("Matrix(x,n,m)", s[1], s[2], 0, x, "ok", 0)

\* makeEmpty(n, m) on the live object
MakeEmptyOp ==
  \E s \in Shapes :
    /\ Live
    /\ Reinit(makeEmpty(s[1], s[2]))
    /\ ref' = NoRef
    /\ last' = [Call("makeEmpty", s[1], s[2], 0, <<>>, "ok", 0) EXCEPT
                 !.stale = (ref.pos >= 0
                            /\ ~Denotes(makeEmpty(s[1], s[2]), ref.pos, ref.i, ref.j))]
    /\ UNCHANGED constructed

\* makeDense(n, m, val) on the live object
MakeDenseOp ==
  \E s \in Shapes, val \in Values :
    /\ Live
    /\ Reinit(makeDense(Self, s[1], s[2], val))
    /\ ref' = NoRef
    /\ last' = [Call("makeDense", s[1], s[2], val, <<>>, "ok", 0) EXCEPT
                 !.stale = (ref.pos >= 0
                            /\ ~Denotes(makeDense(Self, s[1], s[2], val),
                                        ref.pos, ref.i, ref.j))]
    /\ UNCHANGED constructed

\* getElement(i, j); it is const
doGetElement(i, j) ==
  /\ Live
  /\ last' = Call("getElement", i, j, 0, <<>>,
                  getElement(Self, i, j).out, getElement(Self, i, j).ret)
  /\ ref' = NoRef
  /\ UNCHANGED <<constructed, nrow_, ncol_, values, col_, rowind_, requested>>

\* getElementRef(i, j); the reference returned is held in ref
doGetElementRef(i, j) ==
  /\ Live
  /\ \E o \in getElementRef(Self, i, j) :
       /\ Assign(o.M)
       /\ ref' = IF o.ret < 0 THEN NoRef
                 ELSE [pos |-> o.ret, i |-> i, j |-> j, fresh |-> o.fresh]
       /\ last' = [Call("getElementRef", i, j, 0, <<>>, o.out, o.ret) EXCEPT
                    !.again = (last.op = "getElementRef" /\ last.out = "ok"
                               /\ last.i = i /\ last.j = j),
                    !.stale = (ref.pos >= 0
                               /\ ~Denotes(o.M, ref.pos, ref.i, ref.j))]
  /\ requested' = IF 0 <= i /\ i < nrow_ /\ 0 <= j /\ j < ncol_
                   THEN requested \cup {<<i, j>>}
                   ELSE requested
  /\ UNCHANGED constructed

\* calls with no coordinate below zero
GetElementOp == \E i \in RowArgs, j \in ColArgs : doGetElement(i, j)

GetElementRefOp == \E i \in RowArgs, j \in ColArgs : doGetElementRef(i, j)

\* calls with a coordinate below zero
GetElementNeg ==
  \E i \in RowArgs \cup NegArgs, j \in ColArgs \cup NegArgs :
    /\ i < 0 \/ j < 0
    /\ doGetElement(i, j)

GetElementRefNeg ==
  \E i \in RowArgs \cup NegArgs, j \in ColArgs \cup NegArgs :
    /\ i < 0 \/ j < 0
    /\ doGetElementRef(i, j)

\* a write through the reference just returned: getElementRef(i,j) = v
StoreOp ==
  \E v \in Values :
    /\ Live
    /\ ref.pos >= 0
    /\ Assign(storeThrough(Self, ref.pos, v))
    /\ last' = Call("store", ref.i, ref.j, v, <<>>, "ok", ref.pos)
    /\ UNCHANGED <<constructed, ref, requested>>

\* the const functions leave the object as it is; the reference is dropped
ConstCall(call) ==
  /\ Live
  /\ last' = call
  /\ ref' = NoRef
  /\ UNCHANGED <<constructed, nrow_, ncol_, values, col_, rowind_, requested>>

Printed(op, r) ==
  [Call(op, 0, 0, 0, <<>>, r.out, 0) EXCEPT !.text = r.text]

\* print(stream)
PrintOp == ConstCall(Printed("print", print(Self)))

\* printScalar(stream)
PrintScalarOp == ConstCall(Printed("printScalar", printScalar(Self)))

\* printVector(stream)
PrintVectorOp == ConstCall(Printed("printVector", printVector(Self)))

\* printMatrix(stream)
PrintMatrixOp == ConstCall(Printed("printMatrix", printMatrix(Self)))

Answered(op, b) == [Call(op, 0, 0, 0, <<>>, "ok", 0) EXCEPT !.flag = b]

\* size1()
Size1Op == ConstCall(Call("size1", 0, 0, 0, <<>>, "ok", size1(Self)))

\* size2()
Size2Op == ConstCall(Call("size2", 0, 0, 0, <<>>, "ok", size2(Self)))

\* numel()
NumelOp == ConstCall(Call("numel", 0, 0, 0, <<>>, "ok", numel(Self)))

\* empty()
EmptyOp == ConstCall(Answered("empty", empty(Self)))

\* scalar()
ScalarOp == ConstCall(Answered("scalar", scalar(Self)))

\* vector()
VectorOp == ConstCall(Answered("vector", vector(Self)))

Construct ==
  \/ ConstructDefault
  \/ ConstructEmpty
  \/ ConstructDense
  \/ ConstructScalar
  \/ ConstructVector
  \/ ConstructShaped

\* the calls whose coordinates and shapes are not below zero
Next ==
  \/ Construct
  \/ MakeEmptyOp
  \/ MakeDenseOp
  \/ GetElementOp
  \/ GetElementRefOp
  \/ StoreOp
  \/ PrintOp
  \/ PrintScalarOp
  \/ PrintVectorOp
  \/ PrintMatrixOp
  \/ Size1Op
  \/ Size2Op
  \/ NumelOp
  \/ EmptyOp
  \/ ScalarOp
  \/ VectorOp

Spec == Init /\ [][Next]_vars

\* as Next, and the calls with a coordinate below zero
NextAny ==
  \/ Next
  \/ GetElementNeg
  \/ GetElementRefNeg

SpecAny == Init /\ [][NextAny]_vars

(* ------------------------- the data model ------------------------------ *)
\* row i's range of places in values and col_
RowRange(M, i) == At(M.rowind, i)..(At(M.rowind, i + 1) - 1)

\* coordinate (i, j) is stored
Stored(M, i, j) == \E k \in RowRange(M, i) : At(M.col, k) = j

\* len(rowind) == nrow+1, rowind[0] == 0, rowind non-decreasing,
\* rowind[nrow] == len(values) == len(col)
OffsetsWellFormed(M) ==
  /\ Len(M.rowind) = M.nrow + 1
  /\ At(M.rowind, 0) = 0
  /\ \A i \in 0..(M.nrow - 1) : At(M.rowind, i) <= At(M.rowind, i + 1)
  /\ At(M.rowind, M.nrow) = Len(M.values)
  /\ Len(M.values) = Len(M.col)

\* within every row the columns are strictly increasing
RowsStrictlySorted(M) ==
  \A i \in 0..(M.nrow - 1) :
    \A k \in RowRange(M, i) :
      (k + 1) \in RowRange(M, i) => At(M.col, k) < At(M.col, k + 1)

\* every stored column lies in [0, ncol)
ColumnsInRange(M) ==
  \A k \in 0..(Len(M.col) - 1) : 0 <= At(M.col, k) /\ At(M.col, k) < M.ncol

\* (i, j) is a coordinate of the matrix
ValidCoord(M, i, j) == 0 <= i /\ i < M.nrow /\ 0 <= j /\ j < M.ncol

(* ------------------------------- claims -------------------------------- *)
\* C1: after any sequence of valid operations the offset array is well formed:
\* len(rowind) == nrow+1, rowind[0] == 0, rowind is non-decreasing and
\* rowind[nrow] == len(values) == len(col).
C1_OffsetsWellFormed == constructed => OffsetsWellFormed(Self)

\* C1's case: getElementRef inserted an entry in a row that is not the last one,
\* so that offsets of later rows had to move
C1_Witness ==
  /\ last.op = "getElementRef" /\ last.out = "ok" /\ ref.fresh
  /\ last.i + 1 < nrow_
  /\ Len(values) >= 2

\* C2: after any sequence of valid operations the columns of every row are
\* strictly increasing, and an entry getElementRef inserts for an absent
\* coordinate lies in its row and carries its column.
C2_RowsStrictlySorted ==
  constructed =>
    /\ RowsStrictlySorted(Self)
    /\ (last.op = "getElementRef" /\ last.out = "ok") =>
         /\ ref.pos \in RowRange(Self, last.i)
         /\ At(col_, ref.pos) = last.j

\* C2's case: an entry was inserted between two stored entries of its row
C2_Witness ==
  /\ last.op = "getElementRef" /\ last.out = "ok" /\ ref.fresh
  /\ (ref.pos - 1) \in RowRange(Self, last.i)
  /\ (ref.pos + 1) \in RowRange(Self, last.i)

\* C3: after every operation, whatever integers getElementRef was called with,
\* every stored column index lies in [0, ncol).  (Stated for the calls whose
\* behaviour is defined.)
C3_ColumnsInRange == Live => ColumnsInRange(Self)

\* C4: getElement and getElementRef with a row outside [0, nrow) or a column
\* outside [0, ncol) fail with the out-of-bounds error.
\* (Stated for the calls whose behaviour is defined, and counting the
\* std::out_of_range that at() throws as such a failure too.)
C4_OutOfRangeRejected ==
  (/\ last.op \in {"getElement", "getElementRef"}
   /\ last.out # "undefined"
   /\ ~ValidCoord(Self, last.i, last.j))
  => last.out \in {"CasadiException", "out_of_range"}

\* C5: a call of getElementRef, getElement or the shaped constructor that fails
\* leaves values, col, rowind, nrow and ncol as they were, and after a call
\* that does not fail all invariants of the data model hold.  (A call whose
\* behaviour is undefined counts as neither.)
C5_NoPartialFailure ==
  [][/\ (/\ last'.op \in {"getElement", "getElementRef", "Matrix(x,n,m)"}
         /\ last'.out \in {"CasadiException", "out_of_range"})
        => UNCHANGED <<nrow_, ncol_, values, col_, rowind_>>
     /\ (constructed' /\ last'.out = "ok")
        => /\ OffsetsWellFormed(Self')
           /\ RowsStrictlySorted(Self')
           /\ ColumnsInRange(Self')]_vars

\* C6: once v is stored through the reference getElementRef(i,j) returned,
\* getElement(i,j) returns v.
C6_RoundTrip ==
  last.op = "store" => getElement(Self, last.i, last.j) = [out |-> "ok", ret |-> last.v]

\* C6's case: the coordinate was absent, its entry was inserted before stored
\* entries, and a value other than zero was stored
C6_Witness ==
  /\ last.op = "store" /\ ref.fresh /\ last.v # 0
  /\ ref.pos + 1 < Len(values)
  /\ (ref.pos + 1) \in RowRange(Self, last.i)

\* C7: getElementRef on a stored coordinate changes nothing and returns the
\* place of that coordinate; called twice in a row with the same coordinate it
\* returns the same place the second time.
C7_Idempotent ==
  [][(/\ last'.op = "getElementRef" /\ last'.out = "ok"
      /\ constructed /\ ValidCoord(Self, last'.i, last'.j)
      /\ (last'.again \/ Stored(Self, last'.i, last'.j)))
     => /\ UNCHANGED <<nrow_, ncol_, values, col_, rowind_>>
        /\ ~ref'.fresh
        /\ At(col_, last'.ret) = last'.j
        /\ last'.ret \in RowRange(Self, last'.i)
        /\ last'.again => last'.ret = last.ret]_vars

\* C7's case: the second of two getElementRef calls with the same coordinate,
\* the first of which inserted the entry
C7_Witness ==
  /\ last.op = "getElementRef" /\ last.out = "ok" /\ last.again
  /\ Len(values) >= 2

\* the n-by-m matrix with every coordinate stored: rowind[i] == i*m and the
\* columns of each row are 0..m-1
DensePattern(M, n, m) ==
  /\ M.nrow = n /\ M.ncol = m
  /\ numel(M) = n * m
  /\ Len(M.values) = n * m /\ Len(M.col) = n * m /\ Len(M.rowind) = n + 1
  /\ \A i \in 0..n : At(M.rowind, i) = i * m
  /\ \A i \in 0..(n - 1) : \A j \in 0..(m - 1) : At(M.col, i * m + j) = j

\* C8: Matrix(n, m, val) and makeDense(n, m, val) give numel == nnz == n*m,
\* rowind[i] == i*m, the columns 0..m-1 in each row, and getElement(i,j) == val
\* at every coordinate.
C8_DenseFill ==
  last.op \in {"makeDense", "Matrix(n,m,val)"} =>
    /\ DensePattern(Self, last.i, last.j)
    /\ \A i \in 0..(last.i - 1) : \A j \in 0..(last.j - 1) :
         getElement(Self, i, j) = [out |-> "ok", ret |-> last.v]

\* C8's case: makeDense with val zero, more than one row and more than
\* one column
C8_Witness ==
  /\ last.op = "makeDense" /\ last.v = 0
  /\ last.i = 2 /\ last.j = 2

\* C9: Matrix(x, n, m) fails exactly when len(x) # n*m and otherwise is the
\* dense n-by-m matrix with getElement(i,j) == x[i*m+j]; Matrix(x) is the dense
\* len(x)-by-1 matrix with getElement(k,0) == x[k].
C9_FlatSequence ==
  /\ last.op = "Matrix(x,n,m)" =>
       /\ last.out = "CasadiException" <=> Len(last.x) # last.i * last.j
       /\ last.out = "CasadiException" => ~constructed
       /\ last.out # "CasadiException" =>
            /\ constructed /\ last.out = "ok"
            /\ DensePattern(Self, last.i, last.j)
            /\ \A i \in 0..(last.i - 1) : \A j \in 0..(last.j - 1) :
                 getElement(Self, i, j) =
                   [out |-> "ok", ret |-> At(last.x, i * last.j + j)]
  /\ last.op = "Matrix(x)" =>
       /\ constructed /\ last.out = "ok"
       /\ DensePattern(Self, Len(last.x), 1)
       /\ \A k \in 0..(Len(last.x) - 1) :
            getElement(Self, k, 0) = [out |-> "ok", ret |-> At(last.x, k)]

\* C9's case: a 2-by-2 matrix built from a sequence that tells row-major from
\* column-major order
C9_Witness ==
  /\ last.op = "Matrix(x,n,m)" /\ last.out = "ok"
  /\ last.i = 2 /\ last.j = 2
  /\ last.x = <<0, 1, 0, 0>>

\* C10: Matrix(v) leaves exactly the state of dense-fill (1, 1, v):
\* nrow == ncol == 1, rowind == [0,1], col == [0], values == [v], and
\* getElement(0,0) == v.
C10_ScalarPromotion ==
  last.op = "Matrix(val)" =>
    /\ constructed
    /\ Self = makeDense(Blank, 1, 1, last.v)
    /\ nrow_ = 1 /\ ncol_ = 1
    /\ rowind_ = <<0, 1>> /\ col_ = <<0>> /\ values = <<last.v>>
    /\ getElement(Self, 0, 0) = [out |-> "ok", ret |-> last.v]

\* C10's case: a scalar built from zero
C10_Witness == last.op = "Matrix(val)" /\ last.v = 0 /\ constructed

\* the value at coordinate (i, j) of the matrix M stands for: the stored one,
\* or zero
Entry(M, i, j) ==
  IF Stored(M, i, j)
  THEN At(M.values, CHOOSE k \in RowRange(M, i) : At(M.col, k) = j)
  ELSE 0

\* the strings of ss with sep between them
RECURSIVE Join(_, _)
Join(ss, sep) ==
  IF Len(ss) = 0 THEN ""
  ELSE IF Len(ss) = 1 THEN ss[1]
  ELSE ss[1] \o sep \o Join(Tail(ss), sep)

\* row i of M, rendered and comma-joined
RowText(M, i) == Join([j \in 1..M.ncol |-> ToString(Entry(M, i, j - 1))], ",")

\* the text the shape and the entries of M call for
Rendering(M) ==
  IF M.nrow * M.ncol = 0 THEN "<empty expression>"
  ELSE IF M.nrow * M.ncol = 1 THEN ToString(Entry(M, 0, 0))
  ELSE IF M.ncol = 1
  THEN "[" \o ToString(M.nrow) \o "]("
       \o Join([i \in 1..M.nrow |-> ToString(Entry(M, i - 1, 0))], ",") \o ")"
  ELSE "[" \o ToString(M.nrow) \o "," \o ToString(M.ncol) \o "]("
       \o Join([i \in 1..M.nrow |-> "(" \o RowText(M, i - 1) \o ")"], ",") \o ")"

NotScalar == "CasadiException: argument not scalar"

\* C11: print writes `<empty expression>` iff numel == 0, the bare value iff
\* numel == 1, `[nrow](v0,...)` iff ncol == 1 and nrow > 1, and otherwise
\* `[nrow,ncol]((row0),(row1),...)` with every coordinate in row-major order and
\* an absent one as zero; the dense 2x2 matrix from [1,2,3,4] prints as
\* `[2,2]((1,2),(3,4))`.
C11_Rendering ==
  /\ last.op = "print" =>
       /\ last.out = "ok"
       /\ last.text = Rendering(Self)
       /\ last.text = "<empty expression>" <=> nrow_ * ncol_ = 0
       /\ nrow_ * ncol_ > 0 =>
            (last.text = ToString(Entry(Self, 0, 0)) <=> nrow_ * ncol_ = 1)
  /\ print(MatrixShaped(<<1, 2, 3, 4>>, 2, 2)) =
       [out |-> "ok", text |-> "[2,2]((1,2),(3,4))"]

\* C11's case: a 2-by-2 matrix with stored and absent coordinates was printed
C11_Witness ==
  /\ last.op = "print"
  /\ nrow_ = 2 /\ ncol_ = 2
  /\ Len(values) = 2
  /\ \E k \in 1..2 : values[k] # 0

\* C12: printScalar throws, having written nothing, exactly when numel != 1,
\* and print never ends with that error.
C12_ScalarOnly ==
  /\ last.op = "printScalar" =>
       /\ last.out = NotScalar <=> nrow_ * ncol_ # 1
       /\ last.out = NotScalar => last.text = ""
       /\ last.out # NotScalar =>
            last.out = "ok" /\ last.text = ToString(Entry(Self, 0, 0))
  /\ last.op = "print" => last.out = "ok"

\* C12's case: printScalar was called on a matrix of several elements
C12_Witness ==
  /\ last.op = "printScalar" /\ last.out = NotScalar
  /\ nrow_ * ncol_ > 1

\* C13: numel == nrow*ncol, empty iff numel == 0, scalar iff nrow == 1 and
\* ncol == 1, vector iff ncol == 1; so a scalar is a vector and a single row of
\* several columns is not; and inserting an entry changes none of the answers.
C13_ShapeClassification ==
  [][/\ last'.op = "size1" => last'.ret = nrow_'
     /\ last'.op = "size2" => last'.ret = ncol_'
     /\ last'.op = "numel" => last'.ret = nrow_' * ncol_'
     /\ last'.op = "empty" => (last'.flag <=> nrow_' * ncol_' = 0)
     /\ last'.op = "scalar" => (last'.flag <=> (nrow_' = 1 /\ ncol_' = 1))
     /\ last'.op = "vector" => (last'.flag <=> ncol_' = 1)
     /\ constructed' =>
          /\ scalar(Self') => vector(Self')
          /\ (nrow_' = 1 /\ ncol_' > 1) => ~vector(Self')
     /\ (last'.op = "getElementRef" /\ Len(values') # Len(values)) =>
          /\ numel(Self') = numel(Self)
          /\ empty(Self') = empty(Self)
          /\ scalar(Self') = scalar(Self)
          /\ vector(Self') = vector(Self)]_vars

\* C13's case: vector() answered no for a single row of several columns that
\* holds inserted entries
C13_Witness ==
  /\ last.op = "vector" /\ ~last.flag
  /\ nrow_ = 1 /\ ncol_ > 1
  /\ Len(values) > 0

\* the first place of row i whose column exceeds j, or the end of the row
InsertPos(M, i, j) ==
  LET later == {k \in RowRange(M, i) : At(M.col, k) > j}
  IN  IF later = {} THEN At(M.rowind, i + 1)
      ELSE CHOOSE k \in later : \A l \in later : k <= l

\* s with e put before place p (counted from 0)
WithAt(s, p, e) ==
  [k \in 1..(Len(s) + 1) |-> IF k <= p THEN s[k] ELSE IF k = p + 1 THEN e ELSE s[k - 1]]

\* C14: getElementRef(i,j) on a valid absent coordinate inserts one zero at
\* insert_pos (the first slot of row i whose column exceeds j, else rowind[i+1])
\* in values and j at the same place in col, nnz grows by exactly 1, rowind[r]
\* grows by exactly 1 for every r in (i, nrow] and is unchanged for r <= i, and
\* the returned slot is insert_pos; on an empty 3x3 matrix getElementRef(1,2) := 7
\* gives rowind == [0,0,1,1], col == [2], values == [7].
C14_FillIn ==
  [][/\ (/\ last'.op = "getElementRef"
         /\ ValidCoord(Self, last'.i, last'.j)
         /\ ~Stored(Self, last'.i, last'.j)) =>
          LET p == InsertPos(Self, last'.i, last'.j)
          IN  /\ values' = WithAt(values, p, 0)
              /\ col_' = WithAt(col_, p, last'.j)
              /\ Len(values') = Len(values) + 1
              /\ Len(rowind_') = Len(rowind_)
              /\ \A r \in 0..nrow_ :
                   At(rowind_', r) = IF r > last'.i THEN At(rowind_, r) + 1
                                     ELSE At(rowind_, r)
              /\ last'.out = "ok" /\ last'.ret = p
              /\ ref'.pos = p /\ ref'.fresh
              /\ nrow_' = nrow_ /\ ncol_' = ncol_
     /\ \A o \in getElementRef(makeEmpty(3, 3), 1, 2) :
          LET M == storeThrough(o.M, o.ret, 7)
          IN  /\ M.rowind = <<0, 0, 1, 1>> /\ M.col = <<2>> /\ M.values = <<7>>
              /\ getElement(M, 1, 2) = [out |-> "ok", ret |-> 7]
              /\ getElement(M, 0, 0) = [out |-> "ok", ret |-> 0]
              /\ getElement(M, 1, 0) = [out |-> "ok", ret |-> 0]]_vars

\* C14's case: an entry was inserted between two stored ones, in a row that has
\* rows after it
C14_Witness ==
  /\ last.op = "getElementRef" /\ last.out = "ok" /\ ref.fresh
  /\ 0 < ref.pos /\ ref.pos < Len(values) - 1
  /\ ref.i < nrow_ - 1

\* the calls that only read
ReadOps ==
  {"getElement", "print", "printScalar", "printVector", "printMatrix",
   "size1", "size2", "numel", "empty", "scalar", "vector"}

\* C15: in every state reachable by valid operations getElement(i,j) for valid
\* (i,j) returns values[k] when some k in row i's range has col[k] == j and zero
\* otherwise, and getElement, like every other read (shape queries, print),
\* leaves values, col, rowind, nrow and ncol unchanged.
C15_Refinement ==
  [][/\ constructed' =>
          \A i \in 0..(nrow_' - 1), j \in 0..(ncol_' - 1) :
            /\ getElement(Self', i, j).out = "ok"
            /\ \A k \in RowRange(Self', i) :
                 At(col_', k) = j => getElement(Self', i, j).ret = At(values', k)
            /\ ~Stored(Self', i, j) => getElement(Self', i, j).ret = 0
     /\ last'.op = "getElement" =>
          /\ last'.out = getElement(Self, last'.i, last'.j).out
          /\ last'.out = "ok" => last'.ret = Entry(Self, last'.i, last'.j)
     /\ last'.op \in ReadOps => Self' = Self]_vars

\* C15's case: getElement looked for an absent column that lies between two
\* stored columns of its row, the first of them holding a value that is not zero
C15_Witness ==
  /\ last.op = "getElement" /\ last.out = "ok" /\ last.ret = 0
  /\ ValidCoord(Self, last.i, last.j)
  /\ ~Stored(Self, last.i, last.j)
  /\ \E k \in RowRange(Self, last.i) :
       /\ At(col_, k) < last.j /\ At(values, k) # 0
       /\ (k + 1) \in RowRange(Self, last.i)

\* C16: getElement and getElementRef leave the shape (nrow, ncol) unchanged in
\* every state, and the shape of an object changes only through makeEmpty and
\* makeDense.
C16_ShapeFrame ==
  [][/\ last'.op \in {"getElement", "getElementRef"} =>
          nrow_' = nrow_ /\ ncol_' = ncol_
     /\ (constructed /\ <<nrow_', ncol_'>> # <<nrow_, ncol_>>) =>
          last'.op \in {"makeEmpty", "makeDense"}]_vars

\* C16's case: getElementRef inserted the entry that filled a 2-by-2 matrix
C16_Witness ==
  /\ last.op = "getElementRef" /\ last.out = "ok" /\ ref.fresh
  /\ nrow_ = 2 /\ ncol_ = 2
  /\ Len(values) = 4

\* the state a new empty n-by-m matrix has
FreshEmpty(n, m) ==
  [nrow |-> n, ncol |-> m, values |-> <<>>, col |-> <<>>,
   rowind |-> [k \in 1..(n + 1) |-> 0]]

\* the state a new dense n-by-m matrix filled with val has
FreshDense(n, m, val) ==
  [nrow |-> n, ncol |-> m,
   values |-> [k \in 1..(n * m) |-> val],
   col |-> [k \in 1..(n * m) |-> (k - 1) % m],
   rowind |-> [k \in 1..(n + 1) |-> (k - 1) * m]]

\* C17: from any reachable state makeEmpty(n,m) leaves exactly the state of a
\* fresh empty (n,m) matrix (nnz == 0, col empty, rowind == n+1 zeros) and
\* makeDense(n,m,val) exactly the state of a fresh dense-fill (n,m,val) matrix;
\* nothing of the prior state survives.
C17_HistoryIndependent ==
  /\ last.op \in {"makeEmpty", "Matrix(n,m)"} =>
       /\ Self = FreshEmpty(last.i, last.j)
       /\ requested = {}
  /\ last.op \in {"makeDense", "Matrix(n,m,val)"} =>
       /\ Self = FreshDense(last.i, last.j, last.v)
       /\ requested = (0..(last.i - 1)) \X (0..(last.j - 1))

\* C17's case: makeDense was called on a matrix of another shape to which a
\* handle was held, and filled it with zeros
C17_Witness ==
  /\ last.op = "makeDense" /\ last.stale
  /\ last.i = 2 /\ last.j = 2 /\ last.v = 0

\* C18: getElementRef(i,j) by itself changes the result of getElement at no
\* valid coordinate, (i,j) and the entries shifted by the insertion included;
\* and storing v through the handle changes getElement only at (i,j).
C18_WriteFrame ==
  [][/\ last'.op = "getElementRef" =>
          \A i \in 0..(nrow_ - 1), j \in 0..(ncol_ - 1) :
            getElement(Self', i, j) = getElement(Self, i, j)
     /\ last'.op = "store" =>
          \A i \in 0..(nrow_ - 1), j \in 0..(ncol_ - 1) :
            getElement(Self', i, j) =
              IF i = ref.i /\ j = ref.j THEN [out |-> "ok", ret |-> last'.v]
              ELSE getElement(Self, i, j)]_vars

\* C18's case: the insertion shifted a stored value that is not zero
C18_Witness ==
  /\ last.op = "getElementRef" /\ last.out = "ok" /\ ref.fresh
  /\ \E k \in (ref.pos + 1)..(Len(values) - 1) : At(values, k) # 0

\* C19: between re-initializations nnz never decreases, grows by at most 1 per
\* getElementRef call and by 0 per getElement call, never exceeds nrow*ncol, and
\* the stored coordinates are those stored at the last (re-)initialization
\* together with the valid ones passed to getElementRef since.
C19_PatternGrowth ==
  [][(constructed' /\ last'.out # "undefined") =>
       /\ last'.op = "getElementRef" =>
            Len(values) <= Len(values') /\ Len(values') <= Len(values) + 1
       /\ last'.op = "getElement" => Len(values') = Len(values)
       /\ Len(values') < Len(values) =>
            last'.op \in {"makeEmpty", "makeDense"}
       /\ Len(values') <= nrow_' * ncol_'
       /\ StoredSet(Self') = requested']_vars

\* C20: a handle (a place in values) returned by getElementRef(i,j) denotes
\* (i,j) when returned and after a write through it; getElement and
\* getElementRef on a stored coordinate leave it denoting (i,j); a fill-in
\* insertion or a re-initialization may leave it not denoting (i,j), an
\* insertion doing so exactly when it is made at or before the handle's place.
C20_HandleInvalidation ==
  [][/\ ref'.pos >= 0 => Denotes(Self', ref'.pos, ref'.i, ref'.j)
     /\ ref.pos >= 0 =>
          /\ last'.op \in ReadOps \cup {"store"} =>
               Denotes(Self', ref.pos, ref.i, ref.j)
          /\ (last'.op = "getElementRef" /\ ~ref'.fresh) =>
               Denotes(Self', ref.pos, ref.i, ref.j)
          /\ (last'.op = "getElementRef" /\ ref'.fresh) =>
               (Denotes(Self', ref.pos, ref.i, ref.j) <=> ref.pos < ref'.pos)
     /\ last'.stale <=> (ref.pos >= 0 /\ ~Denotes(Self', ref.pos, ref.i, ref.j))
     /\ last'.stale =>
          \/ last'.op \in {"makeEmpty", "makeDense"}
          \/ last'.op = "getElementRef" /\ ref'.fresh]_vars

\* C20's case: the insertion of another coordinate left the handle held before
\* not denoting its coordinate
C20_Witness ==
  /\ last.op = "getElementRef" /\ last.out = "ok" /\ ref.fresh
  /\ last.stale

====
